---- MODULE Spec2Model ----
(***************************************************************************)
(* Model of the VectraClient HTTP layer of src/vectra_client.py: the       *)
(* token-bucket RateLimiter, the retrying request executor _make_request   *)
(* and the auto-paginator _get_all_pages.                                  *)
(*                                                                         *)
(* Time is counted in ticks of 1/TicksPerSec seconds.  The bucket level is *)
(* a Python float; it is kept here as the exact integer                    *)
(* tokens * TicksPerSec * period, so that one token is Unit(period) and    *)
(* one tick refills requests_per_period of these units.  TicksPerSec is a  *)
(* multiple of every capacity of the model, which makes every wait time    *)
(* of line 77 a whole number of ticks.                                     *)
(*                                                                         *)
(* Tasks are asyncio tasks on one event loop: an action is what a task     *)
(* does between two suspension points (lock wait, asyncio.sleep, the       *)
(* network call).  A timer fires at its deadline: the clock does not pass  *)
(* the deadline of a sleeping task.                                        *)
(***************************************************************************)
EXTENDS Integers, Sequences, FiniteSets, TLC

\* ---- bounds of the model ------------------------------------------------
NTasks == 2
MaxCapacity == 2
MaxPeriod == 2
MaxTime == 6
MaxCalls == 4
NItems == 2
MaxMaxPages == 2
MaxOutage == 2
MaxClientTime == 2
MaxRequests == 2

\* ---- program constants --------------------------------------------------
MaxAttempts == 3
BackoffMultiplier == 1
BackoffMin == 1
BackoffMax == 10

Tasks == 1..NTasks
NoTask == 0
Pending == -1

Min(a, b) == IF a < b THEN a ELSE b
Max(a, b) == IF a > b THEN a ELSE b

RECURSIVE Gcd(_, _)
Gcd(a, b) == IF b = 0 THEN a ELSE Gcd(b, a % b)

RECURSIVE LcmUpTo(_)
LcmUpTo(n) == IF n <= 1 THEN 1 ELSE (LcmUpTo(n - 1) * n) \div Gcd(LcmUpTo(n - 1), n)

TicksPerSec == LcmUpTo(MaxCapacity)

VARIABLES
    now,                  \* time.time(), in ticks
    requests_per_period,  \* RateLimiter.requests_per_period
    period,               \* RateLimiter.period, in seconds
    tokens,               \* RateLimiter.tokens, scaled by Unit(period)
    last_update,          \* RateLimiter.last_update, in ticks
    lockHolder,           \* RateLimiter._lock: the task inside `async with`, or NoTask
    lockWaiters,          \* RateLimiter._lock: FIFO of tasks waiting for the lock
    pc,                   \* where each task is suspended
    wake,                 \* deadline of the asyncio.sleep a task is in
    acqLog,               \* history: the direct acquire() calls, in order of issue
    op,                   \* what each task called: "acquire", "request" or "pages"
    method,               \* the HTTP method of the task's current call
    outage,               \* transport: the first outage.n attempts of the call fail with outage.exc
    attempts,             \* tenacity: attempts of the current _make_request call handed to the transport
    backoffs,             \* tenacity: the waits between the attempts of the current call, in ticks
    params,               \* the caller's params mapping
    max_pages,            \* _get_all_pages: max_pages
    current_params,       \* _get_all_pages: current_params (the params of a single request)
    pages_fetched,        \* _get_all_pages: pages_fetched
    all_results,          \* _get_all_pages: all_results
    acquired,             \* history: the acquire() calls of a task's current call that have returned
    reqLog,               \* history: the query parameters of every request of the current call
    served,               \* history: what the transport did with every request of the current call
    logged,               \* the warnings and errors the task logged
    outcome,              \* what the call of the task returned or raised
    calls,                \* how many calls each task has made
    logRecord,            \* logging: the LogRecord of the last logging call
    emitted               \* logging: what the handler wrote for it

limiterVars == <<requests_per_period, period, tokens, last_update, lockHolder, lockWaiters>>
callVars == <<op, method, outage, params, max_pages, calls>>
pageVars == <<current_params, pages_fetched, all_results, logged>>
logVars == <<logRecord, emitted>>
clientVars == <<now, requests_per_period, period, tokens, last_update, lockHolder,
                lockWaiters, pc, wake, acqLog, op, outage, attempts, backoffs, params,
                max_pages, current_params, pages_fetched, all_results, reqLog, served,
                logged, outcome, calls, acquired, method>>
vars == <<clientVars, logVars>>

\* ---- RateLimiter --------------------------------------------------------

\* the scaled value of one token (with a period of 0 no refill is ever
\* computed and the scale is that of a period of 1)
Unit(per) == TicksPerSec * Max(per, 1)

RefilledUncapped(tok, last, t, cap, per) == tok + (t - last) * cap

\* lines 66-72: min(capacity, tokens + time_passed * capacity / period)
Refilled(tok, last, t, cap, per) == Min(cap * Unit(per), tok + (t - last) * cap)

WaitTimeWholeToken(tok, cap, per) == Unit(per) - tok

\* line 77: (1 - tokens) * period / capacity, in ticks
WaitTime(tok, cap, per) == (Unit(per) - tok) \div cap

LockFreeUnchecked == TRUE

\* asyncio.Lock.acquire returns at once iff the lock is free and nobody waits
LockFree == lockHolder = NoTask /\ lockWaiters = <<>>

\* asyncio.Lock.release: the first waiter, if any, gets the lock
Released == IF lockWaiters = <<>> THEN NoTask ELSE Head(lockWaiters)

ReleaseLockForgotten == UNCHANGED <<lockHolder, lockWaiters>>

\* leaving `async with self._lock`
ReleaseLock ==
    /\ lockHolder' = Released
    /\ lockWaiters' = IF lockWaiters = <<>> THEN <<>> ELSE Tail(lockWaiters)

\* what happens to a task entering acquire(): it queues for the lock, sleeps
\* inside the critical section, or passes without suspending
Level == Refilled(tokens, last_update, now, requests_per_period, period)

MustSleepWhenEmpty == Level <= 0

\* line 75: if self.tokens < 1
MustSleep == Level < Unit(period)

\* lines 71 and 77 divide by period and by requests_per_period; with a
\* capacity of 0 the level of line 69 is 0, so that line 77 is always reached
ZeroDivision == period = 0 \/ requests_per_period = 0

EnterOutcome ==
    IF ~LockFree THEN "lockwait"
    ELSE IF ZeroDivision THEN "raise"
    ELSE IF MustSleep THEN "rlsleep" ELSE "go"

LogEntry(t) ==
    [task |-> t, issued |-> now,
     full |-> LockFree /\ Level = requests_per_period * Unit(period),
     susp |-> EnterOutcome \in {"lockwait", "rlsleep"},
     raised |-> EnterOutcome = "raise",
     done |-> IF EnterOutcome = "go" THEN now ELSE Pending]

Logged(t) == Append(acqLog, LogEntry(t))

LogDone(t) ==
    [i \in DOMAIN acqLog |->
        IF acqLog[i].task = t /\ acqLog[i].done = Pending
        THEN [acqLog[i] EXCEPT !.done = now] ELSE acqLog[i]]

\* lines 64-81 run by a task that finds the lock free, up to its first
\* suspension; a ZeroDivisionError leaves `async with`, which frees the lock
LimiterEnter(t) ==
    /\ UNCHANGED <<requests_per_period, period>>
    /\ IF ~LockFree
       THEN /\ lockWaiters' = Append(lockWaiters, t)
            /\ UNCHANGED <<tokens, last_update, lockHolder, wake>>
       ELSE IF period = 0
       THEN UNCHANGED <<tokens, last_update, lockHolder, lockWaiters, wake>>
       ELSE IF requests_per_period = 0
       THEN /\ tokens' = Level
            /\ last_update' = now
            /\ UNCHANGED <<lockHolder, lockWaiters, wake>>
       ELSE /\ last_update' = now
            /\ UNCHANGED lockWaiters
            /\ IF MustSleep
               THEN /\ tokens' = Level
                    /\ lockHolder' = t
                    /\ wake' = [wake EXCEPT ![t] = now + WaitTime(Level, requests_per_period, period)]
               ELSE /\ tokens' = Level - Unit(period)
                    /\ UNCHANGED <<lockHolder, wake>>

\* lines 65-81 run by a task that was handed the lock (a limiter that divides
\* by zero never suspends a task inside the lock, so that no task queues)
LimiterGranted(t) ==
    /\ last_update' = now
    /\ UNCHANGED <<requests_per_period, period>>
    /\ IF MustSleep
       THEN /\ tokens' = Level
            /\ wake' = [wake EXCEPT ![t] = now + WaitTime(Level, requests_per_period, period)]
            /\ UNCHANGED <<lockHolder, lockWaiters>>
       ELSE /\ tokens' = Level - Unit(period)
            /\ ReleaseLock
            /\ UNCHANGED wake

LimiterWakeKeepingLock(t) ==
    /\ tokens' = 0
    /\ UNCHANGED <<requests_per_period, period, last_update, lockHolder, lockWaiters>>

\* lines 78-79: the sleep of line 78 is over; the bucket is emptied and the
\* lock released on leaving `async with`
LimiterWake(t) ==
    /\ tokens' = 0
    /\ ReleaseLock
    /\ UNCHANGED <<requests_per_period, period, last_update>>

\* ---- values on the wire -------------------------------------------------

\* strings are sequences of characters
Digits == {"0", "1", "2", "3", "4", "5", "6", "7", "8", "9"}
DigitVal(c) == CASE c = "0" -> 0 [] c = "1" -> 1 [] c = "2" -> 2 [] c = "3" -> 3
                 [] c = "4" -> 4 [] c = "5" -> 5 [] c = "6" -> 6 [] c = "7" -> 7
                 [] c = "8" -> 8 [] c = "9" -> 9
ValueError == -1
None == [kind |-> "null"]

\* int(s) of line 276 on a string of the model: the number, or ValueError
RECURSIVE IntOf(_)
IntOf(str) ==
    IF str = <<>> THEN ValueError
    ELSE IF str[Len(str)] \notin Digits THEN ValueError
    ELSE IF Len(str) = 1 THEN DigitVal(str[1])
    ELSE LET high == IntOf(SubSeq(str, 1, Len(str) - 1))
         IN IF high = ValueError THEN ValueError ELSE 10 * high + DigitVal(str[Len(str)])

\* a URL is its query string, a sequence of <<key, value>> pairs
Url(query) == [kind |-> "url", query |-> query]

\* parse_qs(...).get("page", [None])[0] of lines 272-273: the first `page` pair
\* with a non-blank value (parse_qs drops blank values), or None
RECURSIVE FirstPage(_)
FirstPage(query) ==
    IF query = <<>> THEN None
    ELSE IF Head(query)[1] = "page" /\ Head(query)[2] # <<>>
         THEN [kind |-> "str", chars |-> Head(query)[2]]
         ELSE FirstPage(Tail(query))

\* the `next` values an upstream page can carry
NextValues ==
    { None,
      Url(<< <<"page", <<"1">>>> >>),
      Url(<< <<"page_size", <<"5">>>>, <<"page", <<"1", "0">>>> >>),
      Url(<<>>),
      Url(<< <<"page", <<>>>> >>),
      Url(<< <<"page", <<"x">>>> >>) }

Items == 1..NItems

\* the `results` of a page: no item, one item, or two
ResultLists == {<<>>, <<1, 2>>} \cup {<<i>> : i \in Items}

\* JSON bodies: a pagination envelope, an object without a `results` key, or
\* a value that is not an object
\* the `count` of a page is the size of the whole listing upstream: the items
\* of the page, and more when pages follow
UpstreamCount(results, next) == Len(results) + (IF next = None THEN 0 ELSE NItems)

PageBodies ==
    {[kind |-> "page", count |-> UpstreamCount(r, n), results |-> r, next |-> n] :
        r \in ResultLists, n \in NextValues}
PlainObject == [kind |-> "object", message |-> "boom"]
ArrayBody == [kind |-> "array", elems |-> <<>>]
TextBody == [kind |-> "text"]

\* more bodies: an object without a `message` key, an array that holds the
\* string "message", a number
BareObject == [kind |-> "object", detail |-> "gone"]
MessageArray == [kind |-> "array", elems |-> <<"message">>]
NumberBody == [kind |-> "number"]

\* response.text: the body as it came over the wire
RawText(body) == [kind |-> "rawtext", of |-> body]

\* response.json(): the parsed body, unless the body is not JSON
Parses(body) == body.kind # "text"

\* line 190: `"message" in error_data`; TypeError when error_data is not a
\* container
MessageIn(body) ==
    CASE body.kind = "object" -> IF "message" \in DOMAIN body THEN "yes" ELSE "no"
      [] body.kind = "array" -> IF \E i \in DOMAIN body.elems : body.elems[i] = "message"
                                THEN "yes" ELSE "no"
      [] body.kind = "page" -> "no"
      [] OTHER -> "TypeError"

ErrorStatuses == {401, 403, 404, 429, 500}

\* what the upstream can answer to one HTTP attempt
Responses ==
    {[kind |-> "response", status |-> 200, json |-> TRUE, body |-> b] : b \in PageBodies \cup {PlainObject, ArrayBody}}
    \cup {[kind |-> "response", status |-> 200, json |-> FALSE, body |-> TextBody]}
    \cup {[kind |-> "response", status |-> s, json |-> TRUE, body |-> PlainObject] : s \in ErrorStatuses}

\* the answers a single _make_request call is tried against
OkResponse ==
    [kind |-> "response", status |-> 200, json |-> TRUE,
     body |-> [kind |-> "page", count |-> 1, results |-> <<1>>, next |-> None]]
SimpleResponses == {r \in Responses : r.body.kind = "page" => r = OkResponse}

\* answers of every status class, content type and kind of body
WireStatuses == {100, 200, 204, 301, 400, 401, 403, 404, 429, 503}
WireBodies == {PlainObject, BareObject, ArrayBody, MessageArray, NumberBody, TextBody,
               OkResponse.body}
AnyResponses ==
    {[kind |-> "response", status |-> s, json |-> j, body |-> b] :
        s \in WireStatuses, j \in BOOLEAN, b \in WireBodies}

\* the error answers among Responses
StatusResponses == {r \in Responses : r.status \in ErrorStatuses}

\* what httpx raises when the transport fails before a status is obtained
TransportFailures == {"ConnectError", "TimeoutException"}

Failure(exc) == [kind |-> "exception", exc |-> exc]

\* ---- VectraClient._make_request -----------------------------------------

Raise(exc, status, message) ==
    [kind |-> "raise", exc |-> exc, status |-> status, message |-> message]
Return(value) == [kind |-> "return", value |-> value]
NoStatus == 0
NoDetail == [kind |-> "nothing"]

\* the fixed message of an error
Msg(text) == [text |-> text]

ErrorDetailTextOnly(body) == RawText(body)

\* lines 187-193: what is appended to the message of the generic error
ErrorDetail(body) ==
    IF ~Parses(body) THEN RawText(body)
    ELSE IF MessageIn(body) = "no" THEN NoDetail
    ELSE IF MessageIn(body) = "yes" /\ body.kind = "object"
         THEN [kind |-> "message", value |-> body.message]
         ELSE RawText(body)

\* line 187 and what lines 188-193 append to it
ErrorMsg(status, detail) ==
    [text |-> "API request failed with status", status |-> status, detail |-> detail]

IsSuccessBelow400(status) == status < 400

\* response.is_success of line 186
IsSuccess(status) == 200 <= status /\ status <= 299

\* lines 209-210: httpx.ConnectError and httpx.TimeoutException are subclasses
\* of httpx.RequestError
IsRequestError(exc) == exc \in {"ConnectError", "TimeoutException"}

OnRequestErrorSwallowed(exc) == Return(None)

OnRequestErrorReraised(exc) == Raise(exc, NoStatus, None)

\* line 210: raise VectraAPIError(f"Request error: {e}")
OnRequestError(exc) ==
    Raise("VectraAPIError", NoStatus, [text |-> "Request error", cause |-> exc])

\* lines 155-210: the outcome of one attempt, given what client.request did
AttemptResult(o) ==
    IF o.kind = "exception"
    THEN IF IsRequestError(o.exc) THEN OnRequestError(o.exc)
         ELSE Raise(o.exc, NoStatus, None)
    ELSE CASE o.status = 401 ->
                Raise("VectraAuthenticationError", 401, Msg("Authentication failed - check credentials"))
           [] o.status = 403 ->
                Raise("VectraAuthenticationError", 403, Msg("Access forbidden - insufficient permissions"))
           [] o.status = 404 -> Raise("VectraNotFoundError", 404, Msg("Resource not found"))
           [] o.status = 429 -> Raise("VectraRateLimitError", 429, Msg("Rate limit exceeded"))
           [] OTHER ->
                IF ~IsSuccess(o.status)
                THEN Raise("VectraAPIError", o.status, ErrorMsg(o.status, ErrorDetail(o.body)))
                ELSE IF o.json
                     THEN IF Parses(o.body) THEN Return(o.body)
                          ELSE Raise("JSONDecodeError", NoStatus, None)
                     ELSE Return([kind |-> "object", data |-> RawText(o.body)])

RetryIfAnyError(exc) == TRUE

\* line 122: retry_if_exception_type((httpx.ConnectError, httpx.TimeoutException))
RetryIf(exc) == exc \in {"ConnectError", "TimeoutException"}

RECURSIVE Pow2(_)
Pow2(n) == IF n = 0 THEN 1 ELSE 2 * Pow2(n - 1)

\* line 121: wait_exponential(multiplier=1, min=1, max=10) after the given
\* attempt, in seconds
WaitExponential(attempt) ==
    Max(BackoffMin, Min(BackoffMultiplier * Pow2(attempt - 1), BackoffMax))

\* lines 119-123: what tenacity does with the result of an attempt
RetryDecision(res, attempt) ==
    IF res.kind = "raise" /\ RetryIf(res.exc)
    THEN IF attempt < MaxAttempts THEN "retry" ELSE "giveup"
    ELSE "pass"

\* the outcome of the whole call once tenacity stops
FinalResult(res, attempt) ==
    IF RetryDecision(res, attempt) = "giveup" THEN Raise("RetryError", NoStatus, None) ELSE res

\* ---- VectraClient._get_all_pages ----------------------------------------

AggregateWithUpstreamCount(ar) ==
    [kind |-> "aggregate", count |-> Len(ar) + NItems, next |-> None,
     previous |-> None, results |-> ar]

\* lines 294-299
Aggregate(ar) ==
    [kind |-> "aggregate", count |-> Len(ar), next |-> None,
     previous |-> None, results |-> ar]

\* line 252: isinstance(response, dict) and "results" in response
HasResults(response) == response.kind = "page"

ExtendInFront(ar, page_results) == page_results \o ar

\* line 258: all_results.extend(page_results)
Extend(ar, page_results) == ar \o page_results

CursorSilent(next_url) ==
    LET next_page == FirstPage(next_url.query)
    IN IF next_page = None \/ IntOf(next_page.chars) = ValueError
       THEN [kind |-> "stop", log |-> <<>>]
       ELSE [kind |-> "page", page |-> IntOf(next_page.chars), log |-> <<>>]

CursorOffByOne(next_url) ==
    LET next_page == FirstPage(next_url.query)
    IN IF next_page = None
       THEN [kind |-> "stop", log |-> <<>>]
       ELSE IF IntOf(next_page.chars) = ValueError
            THEN [kind |-> "stop", log |-> <<"warning: could not parse">>]
            ELSE [kind |-> "page", page |-> IntOf(next_page.chars) + 1, log |-> <<>>]

CursorGuessed(next_url) == [kind |-> "page", page |-> 1, log |-> <<>>]

\* lines 270-283: the page number of the next request, from a `next` URL
Cursor(next_url) ==
    LET next_page == FirstPage(next_url.query)
    IN IF next_page = None
       THEN [kind |-> "stop", log |-> <<>>]
       ELSE IF IntOf(next_page.chars) = ValueError
            THEN [kind |-> "stop", log |-> <<"warning: could not parse">>]
            ELSE [kind |-> "page", page |-> IntOf(next_page.chars), log |-> <<>>]

OnErrorDropping(ar, pf, cp) ==
    [exit |-> "break", all_results |-> <<>>, pages_fetched |-> pf, current_params |-> cp,
     value |-> None, log |-> <<"error">>]

\* lines 285-288: a _make_request that raises ends the loop
OnError(ar, pf, cp) ==
    [exit |-> "break", all_results |-> ar, pages_fetched |-> pf, current_params |-> cp,
     value |-> None, log |-> <<"error">>]

\* lines 250-288: one iteration of the loop on the result of its _make_request;
\* exit is "return" (line 254), "break" or "loop"
Iteration(res, ar, pf, cp) ==
    LET stay == [exit |-> "break", all_results |-> ar, pages_fetched |-> pf,
                 current_params |-> cp, value |-> None, log |-> <<>>]
    IN IF res.kind = "raise"
       THEN OnError(ar, pf, cp)
       ELSE IF ~HasResults(res.value)
       THEN [stay EXCEPT !.exit = "return", !.value = res.value]
       ELSE LET got == [stay EXCEPT !.all_results = Extend(ar, res.value.results),
                                    !.pages_fetched = pf + 1]
                next_url == res.value.next
            IN IF next_url = None THEN got
               ELSE IF Cursor(next_url).kind = "stop"
                    THEN [got EXCEPT !.log = Cursor(next_url).log]
                    ELSE [got EXCEPT !.exit = "loop",
                                     !.current_params.page = Cursor(next_url).page]

LoopGoesOnInclusive(pf, mp) == pf <= mp

\* line 247: while pages_fetched < max_pages
LoopGoesOn(pf, mp) == pf < mp

\* lines 290-291
CapWarning(pf, mp) == IF pf >= mp THEN <<"warning: maximum page limit">> ELSE <<>>

PagesOutcomeWrapped(it) == Return(Aggregate(it.all_results))

\* lines 254 and 294-299: what _get_all_pages returns when the loop is left
PagesOutcome(it) ==
    IF it.exit = "return" THEN Return(it.value) ELSE Return(Aggregate(it.all_results))

\* ---- utils/logging.py ----------------------------------------------------

\* a text is a sequence of lexemes: words, separators, quotes and spaces
Quote == "\""
Space == " "
Blank == {Quote, Space}
Placeholder == "%s"
Mask == "***"
Keywords == <<"token", "password", "secret", "key">>

\* the first position from i on whose lexeme is not in the set (resp. is)
RECURSIVE Skip(_, _, _)
Skip(text, i, set) ==
    IF i <= Len(text) /\ text[i] \in set THEN Skip(text, i + 1, set) ELSE i

RECURSIVE SkipNot(_, _, _)
SkipNot(text, i, set) ==
    IF i <= Len(text) /\ text[i] \notin set THEN SkipNot(text, i + 1, set) ELSE i

\* lines 14-17 and 26: re.sub(kw["\s]*[:=]["\s]*([^"\s]+), kw="***") from
\* position i on
RECURSIVE SubKeyword(_, _, _)
SubKeyword(text, i, kw) ==
    IF i > Len(text) THEN <<>>
    ELSE LET j == Skip(text, i + 1, Blank)
             sep == j <= Len(text) /\ text[j] \in {":", "="}
             k == Skip(text, j + 1, Blank)
             m == SkipNot(text, k, Blank)
         IN IF text[i] = kw /\ sep /\ m > k
            THEN <<kw, "=", Quote, Mask, Quote>> \o SubKeyword(text, m, kw)
            ELSE <<text[i]>> \o SubKeyword(text, i + 1, kw)

\* lines 18 and 26: re.sub(Authorization:\s*Bearer\s+([^\s]+), ...)
RECURSIVE SubBearer(_, _)
SubBearer(text, i) ==
    IF i > Len(text) THEN <<>>
    ELSE LET j == Skip(text, i + 1, {Space})
             bearer == j <= Len(text) /\ text[j] = "Bearer"
             k == Skip(text, j + 1, {Space})
             m == SkipNot(text, k, {Space})
         IN IF text[i] = "Authorization:" /\ bearer /\ k > j + 1 /\ m > k
            THEN <<"Authorization:", Space, "Bearer", Space, Mask>> \o SubBearer(text, m)
            ELSE <<text[i]>> \o SubBearer(text, i + 1)

\* lines 25-26: the keyword patterns, one after the other
RECURSIVE SubKeywords(_, _)
SubKeywords(text, n) ==
    IF n = 0 THEN text ELSE SubKeyword(SubKeywords(text, n - 1), 1, Keywords[n])

\* lines 22-28: SensitiveDataFilter.filter rewrites record.msg and leaves
\* record.args alone
Filter(record) == [record EXCEPT !.msg = SubBearer(SubKeywords(record.msg, Len(Keywords)), 1)]

\* the number of placeholders of a text
RECURSIVE Placeholders(_)
Placeholders(text) ==
    IF text = <<>> THEN 0
    ELSE (IF Head(text) = Placeholder THEN 1 ELSE 0) + Placeholders(Tail(text))

\* msg % args, for as many arguments as placeholders
RECURSIVE Percent(_, _)
Percent(text, args) ==
    IF text = <<>> THEN <<>>
    ELSE IF Head(text) = Placeholder THEN Head(args) \o Percent(Tail(text), Tail(args))
    ELSE <<Head(text)>> \o Percent(Tail(text), args)

NoRecord == [msg |-> <<>>, args |-> <<>>]
NotEmitted == [kind |-> "nothing"]

\* LogRecord.getMessage, called by the formatters of lines 63-83: the message
\* is formatted only when there are arguments; a TypeError of the formatting
\* is reported on stderr with the message and the arguments, and no line is
\* written
GetMessage(record) ==
    IF record.args = <<>> THEN [kind |-> "line", text |-> record.msg]
    ELSE IF Placeholders(record.msg) # Len(record.args)
         THEN [kind |-> "logging error", msg |-> record.msg, args |-> record.args]
         ELSE [kind |-> "line", text |-> Percent(record.msg, record.args)]

\* lines 88-111: a handler runs its filter, then formats and writes
Handle(record) == GetMessage(Filter(record))

\* the secret values the callers log
Secrets == {"hunter2", "s3cr3t"}

\* how a caller writes a secret down: after a keyword and a separator, bare
\* or quoted, or as a bearer credential
Separators == {<<"=">>, <<":", Space>>, <<Space, "=", Space>>}
Written(value) ==
    {<<Keywords[n]>> \o sep \o v : n \in DOMAIN Keywords, sep \in Separators,
                                     v \in {<<value>>, <<Quote, value, Quote>>}}
    \cup {<<"Authorization:", Space, "Bearer", Space, value>>}

\* the logging calls: the sensitive text is in the message itself, or the
\* message has a placeholder in its place, or the whole of it is an argument
LogCalls ==
    UNION {
        {[msg |-> <<"login", Space>> \o w, args |-> <<>>] : w \in Written(v)}
        \cup {[msg |-> <<"login", Space>> \o w, args |-> << <<v>> >>] : w \in Written(Placeholder)}
        \cup {[msg |-> <<"login", Space, Placeholder>>, args |-> <<w>>] : w \in Written(v)}
        : v \in Secrets}

\* logger.info(msg, *args) through a handler of setup_logging
Log ==
    /\ \E record \in LogCalls :
          /\ logRecord' = record
          /\ emitted' = Handle(record)
    /\ UNCHANGED clientVars

\* ---- the tasks ----------------------------------------------------------

NoOutage == [n |-> 0, exc |-> "ConnectError"]
Outages == {NoOutage} \cup {[n |-> k, exc |-> e] : k \in 1..MaxOutage, e \in TransportFailures}

\* a params mapping: the value of each key, Absent for a key it does not hold
Absent == -2
\* a page fetch is tried against a transport that fails one attempt or none
SingleOutages == {og \in Outages : og.n <= 1}

NoParams == [page |-> Absent, page_size |-> Absent]
ParamChoices == {NoParams, [page |-> 2, page_size |-> 50]}

NoOutcome == [kind |-> "none"]

\* line 133: `await self.rate_limiter.acquire()` of an attempt returns, or
\* is still suspended
Acquired(t, returned, acq) ==
    acquired' = [acquired EXCEPT ![t] = IF returned THEN acq + 1 ELSE acq]

SendUnguarded(t, go, att, cp, rl) ==
    /\ attempts' = [attempts EXCEPT ![t] = att + 1]
    /\ reqLog' = [reqLog EXCEPT ![t] = Append(rl, cp)]

\* lines 135-163: the request of an attempt is handed to the transport
Send(t, go, att, cp, rl) ==
    /\ attempts' = [attempts EXCEPT ![t] = IF go THEN att + 1 ELSE att]
    /\ reqLog' = [reqLog EXCEPT ![t] = IF go THEN Append(rl, cp) ELSE rl]

\* where a task is once acquire() has returned
After(opv) == IF opv = "acquire" THEN "idle" ELSE "inflight"

\* lines 133-163: an attempt of _make_request, up to its first suspension, on
\* a client configured with a positive capacity and period
BeginAttempt(t, att, cp, rl, acq) ==
    /\ LimiterEnter(t)
    /\ UNCHANGED acqLog
    /\ Acquired(t, EnterOutcome = "go", acq)
    /\ pc' = [pc EXCEPT ![t] = IF EnterOutcome = "go" THEN "inflight" ELSE EnterOutcome]
    /\ Send(t, EnterOutcome = "go", att, cp, rl)

\* a task calls acquire(); a call that does not suspend returns or raises at
\* once
CallAcquire(t) ==
    /\ pc[t] = "idle"
    /\ Len(acqLog) < MaxCalls
    /\ LimiterEnter(t)
    /\ acqLog' = Logged(t)
    /\ op' = [op EXCEPT ![t] = "acquire"]
    /\ pc' = [pc EXCEPT ![t] = IF EnterOutcome \in {"go", "raise"} THEN "idle" ELSE EnterOutcome]
    /\ outcome' = [outcome EXCEPT ![t] =
           IF EnterOutcome = "raise" THEN Raise("ZeroDivisionError", NoStatus, None) ELSE NoOutcome]
    /\ UNCHANGED <<logVars, now, method, outage, params, max_pages, calls, attempts, backoffs,
                   pageVars, reqLog, served, acquired>>

\* the methods of the endpoints that change something upstream
Writes == {"POST", "PUT", "PATCH", "DELETE"}

\* a task calls create_assignment, update_assignment, mark_detection_fixed
\* or delete_assignment: _make_request with the method of the endpoint
CallWrite(t) ==
    /\ pc[t] \in {"idle", "done"}
    /\ calls[t] < MaxRequests
    /\ calls' = [calls EXCEPT ![t] = @ + 1]
    /\ served' = [served EXCEPT ![t] = <<>>]
    /\ backoffs' = [backoffs EXCEPT ![t] = <<>>]
    /\ outcome' = [outcome EXCEPT ![t] = NoOutcome]
    /\ outage' = [outage EXCEPT ![t] = NoOutage]
    /\ \E m \in Writes :
          /\ op' = [op EXCEPT ![t] = "request"]
          /\ method' = [method EXCEPT ![t] = m]
          /\ params' = [params EXCEPT ![t] = NoParams]
          /\ current_params' = [current_params EXCEPT ![t] = NoParams]
          /\ BeginAttempt(t, 0, NoParams, <<>>, 0)
    /\ UNCHANGED <<logVars, now, max_pages, pages_fetched, all_results, logged>>

\* a task calls _make_request("GET", endpoint, params)
CallRequest(t, ps) ==
    /\ pc[t] \in {"idle", "done"}
    /\ calls[t] < MaxRequests
    /\ method' = [method EXCEPT ![t] = "GET"]
    /\ calls' = [calls EXCEPT ![t] = @ + 1]
    /\ served' = [served EXCEPT ![t] = <<>>]
    /\ backoffs' = [backoffs EXCEPT ![t] = <<>>]
    /\ outcome' = [outcome EXCEPT ![t] = NoOutcome]
    /\ outage' = [outage EXCEPT ![t] = NoOutage]
    /\ \E p \in ps :
          /\ op' = [op EXCEPT ![t] = "request"]
          /\ params' = [params EXCEPT ![t] = p]
          /\ current_params' = [current_params EXCEPT ![t] = p]
          /\ BeginAttempt(t, 0, p, <<>>, 0)
    /\ UNCHANGED <<logVars, now, max_pages, pages_fetched, all_results, logged>>

CallerParamsAliased(p, cp) == cp

\* line 239: current_params is a copy, so the caller's mapping p holds what it
\* held whatever is written to current_params (lines 243 and 276)
CallerParams(p, cp) == p

StripPageKept(p) == p

\* lines 239 and 243: current_params = params.copy(), then pop("page", None)
StripPage(p) == [p EXCEPT !.page = Absent]

\* lines 235-249: a task calls _get_all_pages(endpoint, params, max_pages) and
\* reaches the first _make_request
CallPages(t) ==
    /\ pc[t] = "idle"
    /\ calls[t] = 0
    /\ calls' = [calls EXCEPT ![t] = 1]
    /\ \E p \in ParamChoices, mp \in 1..MaxMaxPages :
          /\ op' = [op EXCEPT ![t] = "pages"]
          /\ method' = [method EXCEPT ![t] = "GET"]
          /\ params' = [params EXCEPT ![t] = CallerParams(p, StripPage(p))]
          /\ max_pages' = [max_pages EXCEPT ![t] = mp]
          /\ current_params' = [current_params EXCEPT ![t] = StripPage(p)]
          /\ BeginAttempt(t, 0, StripPage(p), <<>>, 0)
    /\ UNCHANGED <<logVars, now, outage, backoffs, pages_fetched, all_results, served, logged, outcome>>

\* a task queued for the lock is handed it and runs the critical section
Granted(t) ==
    /\ pc[t] = "lockwait"
    /\ lockHolder = t
    /\ LimiterGranted(t)
    /\ acqLog' = IF MustSleep THEN acqLog ELSE LogDone(t)
    /\ pc' = [pc EXCEPT ![t] = IF MustSleep THEN "rlsleep" ELSE After(op[t])]
    /\ IF op[t] = "acquire" THEN UNCHANGED <<attempts, reqLog, acquired>>
       ELSE /\ Acquired(t, ~MustSleep, acquired[t])
            /\ Send(t, ~MustSleep, attempts[t], current_params[t], reqLog[t])
    /\ UNCHANGED <<logVars, now, callVars, backoffs, pageVars, served, outcome>>

\* the asyncio.sleep a task is in reaches its deadline: the sleep of
\* acquire() (line 78), or the wait of tenacity before the next attempt
SleepDone(t) ==
    /\ pc[t] \in {"rlsleep", "backoff"}
    /\ wake[t] <= now
    /\ IF pc[t] = "rlsleep"
       THEN /\ LimiterWake(t)
            /\ acqLog' = LogDone(t)
            /\ pc' = [pc EXCEPT ![t] = After(op[t])]
            /\ wake' = [wake EXCEPT ![t] = 0]
            /\ IF op[t] = "acquire" THEN UNCHANGED <<attempts, reqLog, acquired>>
               ELSE /\ Acquired(t, TRUE, acquired[t])
                    /\ Send(t, TRUE, attempts[t], current_params[t], reqLog[t])
       ELSE BeginAttempt(t, attempts[t], current_params[t], reqLog[t], acquired[t])
    /\ UNCHANGED <<logVars, now, callVars, backoffs, pageVars, served, outcome>>

\* what the transport does with attempt number att of a call, when it fails
\* the first og.n attempts of the call and answers from resps afterwards
TransportOutcomes(og, att, resps) ==
    IF att <= og.n THEN {Failure(og.exc)} ELSE resps

AccumulatorShared(t) == all_results[1]

\* line 238: all_results is a local variable of the call
Accumulator(t) == all_results[t]

\* the network call of line 156 completes: lines 164-210, then tenacity, then
\* the caller (for _get_all_pages lines 250-299 and, when the loop goes on,
\* the next _make_request up to its first suspension).  How long the
\* transport is down shows with the first attempt of a call.
Receive(t, resps, ogs) ==
    /\ pc[t] = "inflight"
    /\ \E og \in (IF attempts[t] = 1 THEN ogs ELSE {outage[t]}) :
       \E o \in TransportOutcomes(og, attempts[t], resps) :
        LET res == AttemptResult(o)
            final == FinalResult(res, attempts[t])
            it == Iteration(final, Accumulator(t), pages_fetched[t], current_params[t])
            again == it.exit = "loop" /\ LoopGoesOn(it.pages_fetched, max_pages[t])
        IN /\ served' = [served EXCEPT ![t] = Append(@, o)]
           /\ outage' = [outage EXCEPT ![t] = og]
           /\ params' = [params EXCEPT ![t] =
                  IF op[t] = "pages" /\ RetryDecision(res, attempts[t]) # "retry"
                  THEN CallerParams(@, it.current_params) ELSE @]
           /\ IF RetryDecision(res, attempts[t]) = "retry"
              THEN /\ pc' = [pc EXCEPT ![t] = "backoff"]
                   /\ wake' = [wake EXCEPT ![t] = now + WaitExponential(attempts[t]) * TicksPerSec]
                   /\ backoffs' = [backoffs EXCEPT ![t] = Append(@, WaitExponential(attempts[t]) * TicksPerSec)]
                   /\ UNCHANGED <<limiterVars, acqLog, attempts, reqLog, acquired, pageVars, outcome>>
              ELSE IF op[t] = "request"
              THEN /\ pc' = [pc EXCEPT ![t] = "done"]
                   /\ outcome' = [outcome EXCEPT ![t] = final]
                   /\ UNCHANGED <<limiterVars, acqLog, wake, attempts, backoffs,
                                  reqLog, acquired, pageVars>>
              ELSE /\ all_results' = [all_results EXCEPT ![t] = it.all_results]
                   /\ pages_fetched' = [pages_fetched EXCEPT ![t] = it.pages_fetched]
                   /\ current_params' = [current_params EXCEPT ![t] = it.current_params]
                   /\ IF again
                      THEN /\ BeginAttempt(t, 0, it.current_params, reqLog[t], acquired[t])
                           /\ backoffs' = [backoffs EXCEPT ![t] = <<>>]
                           /\ logged' = [logged EXCEPT ![t] = @ \o it.log]
                           /\ UNCHANGED outcome
                      ELSE /\ pc' = [pc EXCEPT ![t] = "done"]
                           /\ outcome' = [outcome EXCEPT ![t] = PagesOutcome(it)]
                           /\ logged' = [logged EXCEPT ![t] =
                                  IF it.exit = "return" THEN @ \o it.log
                                  ELSE @ \o it.log \o CapWarning(it.pages_fetched, max_pages[t])]
                           /\ UNCHANGED <<limiterVars, acqLog, wake, attempts,
                                          backoffs, reqLog, acquired>>
    /\ UNCHANGED <<logVars, now, op, method, max_pages, calls>>

Sleeping(t) == pc[t] \in {"rlsleep", "backoff"}

\* the clock advances, but not past the deadline of a pending timer
Tick(horizon) ==
    /\ now < horizon
    /\ \A t \in Tasks : Sleeping(t) => now < wake[t]
    /\ now' = now + 1
    /\ UNCHANGED <<logVars, limiterVars, pc, wake, acqLog, callVars, attempts, backoffs,
                   pageVars, reqLog, acquired, served, outcome>>

\* RateLimiter.__init__ (lines 55-60) and tasks that have called nothing yet
Start(capacities, periods) ==
    /\ now = 0
    /\ requests_per_period \in capacities
    /\ period \in periods
    /\ tokens = requests_per_period * Unit(period)
    /\ last_update = 0
    /\ lockHolder = NoTask
    /\ lockWaiters = <<>>
    /\ pc = [t \in Tasks |-> "idle"]
    /\ wake = [t \in Tasks |-> 0]
    /\ acqLog = <<>>
    /\ op = [t \in Tasks |-> "none"]
    /\ method = [t \in Tasks |-> "GET"]
    /\ outage = [t \in Tasks |-> NoOutage]
    /\ attempts = [t \in Tasks |-> 0]
    /\ backoffs = [t \in Tasks |-> <<>>]
    /\ params = [t \in Tasks |-> NoParams]
    /\ max_pages = [t \in Tasks |-> 0]
    /\ current_params = [t \in Tasks |-> NoParams]
    /\ pages_fetched = [t \in Tasks |-> 0]
    /\ all_results = [t \in Tasks |-> <<>>]
    /\ reqLog = [t \in Tasks |-> <<>>]
    /\ acquired = [t \in Tasks |-> 0]
    /\ served = [t \in Tasks |-> <<>>]
    /\ logged = [t \in Tasks |-> <<>>]
    /\ outcome = [t \in Tasks |-> NoOutcome]
    /\ calls = [t \in Tasks |-> 0]
    /\ logRecord = NoRecord
    /\ emitted = NotEmitted

\* concurrent callers of RateLimiter.acquire() on one limiter
NextRL ==
    \/ \E t \in Tasks : CallAcquire(t)
    \/ \E t \in Tasks : Granted(t)
    \/ \E t \in Tasks : SleepDone(t)
    \/ Tick(MaxTime)

InitRL == Start(1..MaxCapacity, 1..MaxPeriod)

SpecRL == InitRL /\ [][NextRL]_vars

\* two callers of acquire() under fair scheduling, on a limiter with a period
\* of one second: the event loop runs a task that was handed the lock, fires
\* a timer that is due, and time passes; the clock is bounded only while no
\* task sleeps
LiveHorizon == IF \E t \in Tasks : Sleeping(t) THEN now + 1 ELSE MaxClientTime

NextLive ==
    \/ \E t \in {1, 2} : CallAcquire(t)
    \/ \E t \in Tasks : Granted(t)
    \/ \E t \in Tasks : SleepDone(t)
    \/ Tick(LiveHorizon)

InitLive == Start(1..MaxCapacity, {1})

SpecLive ==
    /\ InitLive
    /\ [][NextLive]_vars
    /\ \A t \in Tasks : WF_vars(Granted(t)) /\ WF_vars(SleepDone(t))
    /\ WF_vars(Tick(LiveHorizon))

\* two callers of acquire() on a limiter of any positive configuration; the
\* clock runs on while a task sleeps, so that every sleep ends
SpecSteps == InitRL /\ [][NextLive]_vars

\* the same callers on a limiter of any configuration VectraConfig accepts,
\* 0 included
InitConfig == Start(0..MaxCapacity, 0..MaxPeriod)

NextConfig ==
    \/ \E t \in Tasks : CallAcquire(t)
    \/ \E t \in Tasks : Granted(t)
    \/ \E t \in Tasks : SleepDone(t)
    \/ Tick(MaxClientTime)

SpecConfig == InitConfig /\ [][NextConfig]_vars

\* concurrent callers of VectraClient._make_request on one client, which is
\* configured as in the end-to-end scenario of the specification
Clients == {1, 2}

Init == Start({2}, {1})

Next ==
    \/ \E t \in Clients : CallRequest(t, {NoParams})
    \/ \E t \in Tasks : Granted(t)
    \/ \E t \in Tasks : SleepDone(t)
    \/ \E t \in Clients : Receive(t, SimpleResponses, Outages)
    \/ Tick(MaxClientTime)

Spec == Init /\ [][Next]_vars

\* the same callers under fair scheduling; the transport answers or fails
\* every request in the end (httpx.Timeout of line 104)
NextFair ==
    \/ \E t \in Clients : CallRequest(t, {NoParams})
    \/ \E t \in Tasks : Granted(t)
    \/ \E t \in Tasks : SleepDone(t)
    \/ \E t \in Clients : Receive(t, SimpleResponses, Outages)
    \/ Tick(LiveHorizon)

SpecFair ==
    /\ Init
    /\ [][NextFair]_vars
    /\ \A t \in Tasks : WF_vars(Granted(t)) /\ WF_vars(SleepDone(t))
    /\ \A t \in Clients : WF_vars(Receive(t, SimpleResponses, Outages))
    /\ WF_vars(Tick(LiveHorizon))

\* a _get_all_pages run next to callers of _make_request on the same client
Paginators == {1}

NextPages ==
    \/ \E t \in Paginators : CallPages(t)
    \/ \E t \in Clients \ Paginators : CallRequest(t, {NoParams})
    \/ \E t \in Tasks : Granted(t)
    \/ \E t \in Tasks : SleepDone(t)
    \/ \E t \in Paginators : Receive(t, Responses, SingleOutages)
    \/ \E t \in Clients \ Paginators : Receive(t, {OkResponse}, {NoOutage})
    \/ Tick(MaxClientTime)

SpecPages == Init /\ [][NextPages]_vars

\* callers of _make_request against answers of every status class, content
\* type and kind of body
WireClients == {1}

NextWire ==
    \/ \E t \in Clients : CallRequest(t, {NoParams})
    \/ \E t \in Tasks : Granted(t)
    \/ \E t \in Tasks : SleepDone(t)
    \/ \E t \in WireClients : Receive(t, AnyResponses, {NoOutage})
    \/ \E t \in Clients \ WireClients : Receive(t, StatusResponses, {NoOutage})
    \/ Tick(MaxClientTime)

SpecWire == Init /\ [][NextWire]_vars

\* concurrent callers of the endpoints that write, against a transport that
\* fails any number of attempts and answers with any status
NextWrites ==
    \/ \E t \in Clients : CallWrite(t)
    \/ \E t \in Tasks : Granted(t)
    \/ \E t \in Tasks : SleepDone(t)
    \/ \E t \in Clients : Receive(t, SimpleResponses, Outages)
    \/ Tick(MaxClientTime)

SpecWrites == Init /\ [][NextWrites]_vars

\* concurrent _get_all_pages runs on one client; the pages a run is answered
\* with hold the item of that run, and a `next` that is null or followable
RunResponses(t) ==
    {r \in Responses : /\ r.status = 200 /\ r.json /\ r.body.kind = "page"
                       /\ r.body.results = <<t>>
                       /\ r.body.next \in {None, Url(<< <<"page", <<"1">>>> >>),
                                           Url(<< <<"page_size", <<"5">>>>, <<"page", <<"1", "0">>>> >>)}}

NextRuns ==
    \/ \E t \in Clients : CallPages(t)
    \/ \E t \in Tasks : Granted(t)
    \/ \E t \in Tasks : SleepDone(t)
    \/ \E t \in Clients : Receive(t, RunResponses(t), {NoOutage})
    \/ Tick(MaxClientTime)

SpecRuns == Init /\ [][NextRuns]_vars

\* callers of the logging of utils/logging.py
NextLog == Log

SpecLog == Init /\ [][NextLog]_vars

\* ---- properties --------------------------------------------------------

RECURSIVE Flatten(_)
Flatten(lists) == IF lists = <<>> THEN <<>> ELSE Head(lists) \o Flatten(Tail(lists))

Last(seq) == seq[Len(seq)]

\* the envelope that aggregates the given items
AggregateOf(items) ==
    [kind |-> "aggregate", count |-> Len(items), next |-> None, previous |-> None,
     results |-> items]

IsPage(o) == o.kind = "response" /\ IsSuccess(o.status) /\ o.json /\ o.body.kind = "page"
StatusError(o) == o.kind = "response" /\ ~IsSuccess(o.status)
Fails(o) == o.kind = "exception" \/ StatusError(o)

\* the items of the first n answers of a run, all of them pages
ItemsOf(t, n) == Flatten([j \in 1..n |-> served[t][j].body.results])

\* `next` values with a parsable page parameter, and without one (missing,
\* empty, not an integer)
Followable == {Url(<< <<"page", <<"1">>>> >>),
               Url(<< <<"page_size", <<"5">>>>, <<"page", <<"1", "0">>>> >>)}
Malformed == {Url(<<>>), Url(<< <<"page", <<>>>> >>), Url(<< <<"page", <<"x">>>> >>)}

Second == TicksPerSec

\* C1: a _make_request call whose transport fails on attempts 1 and 2 and
\* answers on attempt 3 ends after exactly 3 attempts, with waits of 1s and 2s
\* between them, and returns the payload of the third attempt
C1_RetryThenSuccess ==
    \A t \in Tasks :
        (op[t] = "request" /\ pc[t] = "done" /\ outage[t].n = 2)
        => /\ attempts[t] = 3
           /\ backoffs[t] = <<1 * Second, 2 * Second>>
           /\ IsSuccess(served[t][3].status) => outcome[t] = AttemptResult(served[t][3])

\* C2: the number of acquire() calls that complete within any interval of
\* length L is at most capacity + L * capacity / period
C2_RateBound ==
    \A i, j \in DOMAIN acqLog :
        (i <= j /\ acqLog[i].done # Pending /\ acqLog[j].done # Pending
                /\ acqLog[i].done <= acqLog[j].done)
        => LET inside == {k \in DOMAIN acqLog : /\ acqLog[k].done # Pending
                                                 /\ acqLog[i].done <= acqLog[k].done
                                                 /\ acqLog[k].done <= acqLog[j].done}
           IN Cardinality(inside) * Unit(period)
                <= requests_per_period * Unit(period)
                   + (acqLog[j].done - acqLog[i].done) * requests_per_period

\* C3: in every state, also while a caller is suspended inside acquire(),
\* 0 <= tokens <= capacity
C3_TokensInRange == 0 <= tokens /\ tokens <= requests_per_period * Unit(period)

C3_Witness ==
    \E t, u \in Tasks :
        pc[t] = "rlsleep" /\ pc[u] = "lockwait" /\ 0 < tokens /\ tokens < Unit(period)

\* C4: from a full bucket, capacity calls issued at the same time T complete
\* at T without suspending and the next call issued at T suspends and
\* completes at T + period / capacity
C4_BurstThenWait ==
    \A i \in DOMAIN acqLog :
        LET c == requests_per_period
            T == acqLog[i].issued
        IN (/\ acqLog[i].full
            /\ i + c <= Len(acqLog)
            /\ \A j \in i..(i + c) : acqLog[j].issued = T)
           => /\ \A j \in i..(i + c - 1) : acqLog[j].done = T /\ ~acqLog[j].susp
              /\ acqLog[i + c].susp
              /\ acqLog[i + c].done \in {Pending, T + (Second * period) \div c}

C4_Witness ==
    /\ requests_per_period = 2 /\ period = 1
    /\ Len(acqLog) >= 3
    /\ acqLog[1].full
    /\ \A j \in 1..3 : acqLog[j].issued = 0
    /\ acqLog[1].done = 0 /\ acqLog[2].done = 0
    /\ 2 * acqLog[3].done = Second

\* C5: a run over k pages, all but the last with a parsable next page and the
\* last with next null, returns the envelope of the concatenation of the
\* pages' results in page order
C5_Aggregation ==
    \A t \in Tasks :
        (/\ op[t] = "pages" /\ pc[t] = "done" /\ served[t] # <<>>
         /\ \A i \in DOMAIN served[t] : IsPage(served[t][i])
         /\ \A i \in 1..(Len(served[t]) - 1) : served[t][i].body.next \in Followable
         /\ Last(served[t]).body.next = None)
        => outcome[t] = Return(AggregateOf(ItemsOf(t, Len(served[t]))))

C5_Witness ==
    \E t \in Tasks :
        /\ op[t] = "pages" /\ pc[t] = "done" /\ Len(served[t]) = 2
        /\ IsPage(served[t][1]) /\ IsPage(served[t][2])
        /\ served[t][2].body.next = None
        /\ served[t][1].body.results = <<1>> /\ served[t][2].body.results = <<2>>
        /\ outcome[t].value.results = <<1, 2>>

\* C6 as stated: a run never issues more than max_pages requests, and over
\* pages whose next is never null it ends after exactly max_pages fetches and
\* returns the aggregate
C6_CapOnNeverNullNext ==
    \A t \in Tasks :
        op[t] = "pages"
        => /\ Len(reqLog[t]) <= max_pages[t]
           /\ (/\ pc[t] = "done" /\ served[t] # <<>>
               /\ \A i \in DOMAIN served[t] :
                     IsPage(served[t][i]) /\ served[t][i].body.next # None)
              => /\ Len(served[t]) = max_pages[t]
                 /\ outcome[t] = Return(AggregateOf(ItemsOf(t, Len(served[t]))))

\* C6 amended: a run never issues more than max_pages requests, and over
\* pages whose next is never null and always carries a parsable page
\* parameter it ends after exactly max_pages fetches and returns the aggregate
C6_CapOnFollowableNext ==
    \A t \in Tasks :
        op[t] = "pages"
        => /\ Len(reqLog[t]) <= max_pages[t]
           /\ (/\ pc[t] = "done" /\ served[t] # <<>>
               /\ \A i \in DOMAIN served[t] :
                     IsPage(served[t][i]) /\ served[t][i].body.next \in Followable)
              => /\ Len(served[t]) = max_pages[t]
                 /\ outcome[t] = Return(AggregateOf(ItemsOf(t, Len(served[t]))))

C6_Witness ==
    \E t \in Tasks :
        /\ op[t] = "pages" /\ pc[t] = "done" /\ max_pages[t] >= 2
        /\ Len(served[t]) = max_pages[t]
        /\ \A i \in DOMAIN served[t] :
              IsPage(served[t][i]) /\ served[t][i].body.next = Url(<< <<"page", <<"1">>>> >>)
        /\ outcome[t].value.count = max_pages[t]

\* C7: a page fetch that raises is the last request of the run, and the run
\* returns the envelope of the items of the pages fetched before it
C7_ErrorStopsRun ==
    \A t \in Tasks :
        op[t] = "pages"
        => \A i \in DOMAIN served[t] :
              Fails(served[t][i])
              => /\ i = Len(served[t])
                 /\ pc[t] = "done"
                 /\ Len(reqLog[t]) = i
                 /\ outcome[t] = Return(AggregateOf(ItemsOf(t, i - 1)))

C7_Witness ==
    \E t \in Tasks :
        /\ op[t] = "pages" /\ pc[t] = "done" /\ Len(served[t]) = 2
        /\ served[t][2].kind = "exception"
        /\ outcome[t].value.results = <<2>>

\* C8: a status-level error answer ends the _make_request call at that
\* attempt: the error with that status is raised, with no retry and no wait
C8_StatusErrorNotRetried ==
    \A t \in Tasks :
        op[t] = "request"
        => \A i \in DOMAIN served[t] :
              StatusError(served[t][i])
              => /\ i = Len(served[t])
                 /\ pc[t] = "done"
                 /\ attempts[t] = 1
                 /\ Len(reqLog[t]) = 1
                 /\ backoffs[t] = <<>>
                 /\ outcome[t].kind = "raise"
                 /\ outcome[t].status = served[t][i].status

C8_Witness ==
    \E t \in Tasks :
        /\ op[t] = "request" /\ pc[t] = "done" /\ Len(served[t]) = 1
        /\ served[t][1].kind = "response" /\ served[t][1].status = 404
        /\ outcome[t] = Raise("VectraNotFoundError", 404, Msg("Resource not found"))

\* C9: a first answer that is JSON without a `results` key is returned as it
\* is, after a single request
C9_Passthrough ==
    \A t \in Tasks :
        (/\ op[t] = "pages" /\ served[t] # <<>>
         /\ served[t][1].kind = "response" /\ IsSuccess(served[t][1].status)
         /\ served[t][1].json /\ served[t][1].body.kind # "page")
        => /\ pc[t] = "done"
           /\ Len(served[t]) = 1
           /\ Len(reqLog[t]) = 1
           /\ outcome[t] = Return(served[t][1].body)

C9_Witness ==
    \E t \in Tasks : op[t] = "pages" /\ pc[t] = "done" /\ outcome[t] = Return(PlainObject)

\* C10: a page whose next is not null but has no parsable page parameter is
\* the last request of the run, and the run returns the envelope of all items
\* up to and including that page
C10_MalformedNextStops ==
    \A t \in Tasks :
        op[t] = "pages"
        => \A i \in DOMAIN served[t] :
              (IsPage(served[t][i]) /\ served[t][i].body.next \in Malformed)
              => /\ i = Len(served[t])
                 /\ pc[t] = "done"
                 /\ Len(reqLog[t]) = i
                 /\ outcome[t] = Return(AggregateOf(ItemsOf(t, i)))

C10_Witness ==
    \E t \in Tasks :
        /\ op[t] = "pages" /\ pc[t] = "done" /\ Len(served[t]) = 2
        /\ IsPage(served[t][2])
        /\ served[t][2].body.next = Url(<< <<"page", <<"x">>>> >>)
        /\ outcome[t].value.count = 2

\* a finished _make_request call of task t that got the answer o
Answered(t, o) ==
    /\ op[t] = "request" /\ pc[t] = "done" /\ Len(served[t]) = 1
    /\ served[t][1] = o /\ o.kind = "response"

NamedStatuses == {401, 403, 404, 429}

Is2xx(status) == status \div 100 = 2

\* the statuses that share the error class of the given status
ClassMates(status) == IF status \in {401, 403} THEN {401, 403} ELSE {status}

ErrorClasses ==
    {"VectraAPIError", "VectraAuthenticationError", "VectraNotFoundError", "VectraRateLimitError"}

\* the outcome of a non-2xx answer is an error of the repository that carries
\* the status code; a generic status gives the generic error
RaisesStatus(o, out) ==
    /\ out.kind = "raise" /\ out.exc \in ErrorClasses /\ out.status = o.status
    /\ o.status \notin NamedStatuses => out.exc = "VectraAPIError"
    /\ o.status \in NamedStatuses => out.exc # "VectraAPIError"

\* C11 as stated: the outcome of an attempt is decided by the status code
\* (and the content type for 2xx): each of 401, 403, 404 and 429 gives an
\* error variant of its own, every other non-2xx the generic error with the
\* status code, 2xx with a JSON content type the parsed body (of a body that
\* parses), any other 2xx an object wrapping the raw text
C11_StatusDecidesOutcome ==
    \A t \in Tasks : \A o \in AnyResponses \cup StatusResponses :
        Answered(t, o)
        => /\ ~Is2xx(o.status) => RaisesStatus(o, outcome[t])
           /\ o.status \in NamedStatuses
              => \A u \in Tasks : \A q \in AnyResponses \cup StatusResponses :
                    (Answered(u, q) /\ q.status \in NamedStatuses)
                    => (outcome[u].exc = outcome[t].exc <=> q.status = o.status)
           /\ (Is2xx(o.status) /\ o.json /\ Parses(o.body)) => outcome[t] = Return(o.body)
           /\ (Is2xx(o.status) /\ ~o.json)
              => outcome[t] = Return([kind |-> "object", data |-> RawText(o.body)])

\* C11 amended: as above, but 401 and 403 give the same error class (told
\* apart by status code and message) while 404 and 429 each have their own
C11_StatusDecidesOutcomeSharedAuth ==
    \A t \in Tasks : \A o \in AnyResponses \cup StatusResponses :
        Answered(t, o)
        => /\ ~Is2xx(o.status) => RaisesStatus(o, outcome[t])
           /\ o.status \in NamedStatuses
              => \A u \in Tasks : \A q \in AnyResponses \cup StatusResponses :
                    (Answered(u, q) /\ q.status \in NamedStatuses)
                    => /\ outcome[u].exc = outcome[t].exc <=> q.status \in ClassMates(o.status)
                       /\ outcome[u].message = outcome[t].message <=> q.status = o.status
           /\ (Is2xx(o.status) /\ o.json /\ Parses(o.body)) => outcome[t] = Return(o.body)
           /\ (Is2xx(o.status) /\ ~o.json)
              => outcome[t] = Return([kind |-> "object", data |-> RawText(o.body)])

C11_Witness ==
    \E o, q \in AnyResponses \cup StatusResponses :
        /\ Answered(1, o) /\ o.status = 403 /\ outcome[1].status = 403
        /\ Answered(2, q) /\ q.status = 401 /\ outcome[2].exc = outcome[1].exc
        /\ outcome[2].message # outcome[1].message

\* C12: for every configuration VectraConfig accepts, 0 included, no call of
\* acquire() raises
C12_AcquireNeverRaises ==
    /\ \A i \in DOMAIN acqLog : ~acqLog[i].raised
    /\ \A t \in Tasks : op[t] = "acquire" => outcome[t].kind # "raise"

\* the calls of acquire() that have returned
Returned(log) == {i \in DOMAIN log : log[i].done # Pending}

\* C13: with capacity >= 1 and period >= 1, under fair scheduling of tasks
\* and timers every call of acquire() eventually returns, and the step in
\* which a call returns takes exactly one token from the level the bucket has
\* at that time
C13_EveryCallCompletes ==
    /\ \A t \in Tasks : (pc[t] \in {"lockwait", "rlsleep"}) ~> (pc[t] = "idle")
    /\ [][Returned(acqLog') # Returned(acqLog)
            => /\ Cardinality(Returned(acqLog')) = Cardinality(Returned(acqLog)) + 1
               /\ tokens' = Level - Unit(period)]_vars

C13_Witness ==
    /\ Len(acqLog) = MaxCalls
    /\ \A i \in DOMAIN acqLog : acqLog[i].done # Pending
    /\ \E i, j \in DOMAIN acqLog :
          /\ acqLog[i].task # acqLog[j].task
          /\ acqLog[i].susp /\ acqLog[j].susp
          /\ acqLog[i].done > acqLog[i].issued
          /\ acqLog[j].done > acqLog[i].done

\* C14 as stated: whenever a task is suspended in the sleep of acquire() or
\* in a network call, the lock of the limiter is free
C14_LockFreeWhileSuspended ==
    (\E t \in Tasks : pc[t] \in {"rlsleep", "inflight"}) => lockHolder = NoTask

\* C14 amended: the lock is never held across a network call; it is held
\* across the sleep of acquire(), by the sleeping task, and otherwise only by
\* a task it was handed to that has not run yet
C14_LockHeldOnlyBySleeper ==
    \A t \in Tasks :
        /\ pc[t] = "inflight" => lockHolder # t
        /\ pc[t] = "rlsleep" => lockHolder = t
        /\ lockHolder = t => pc[t] \in {"rlsleep", "lockwait"}

C14_Witness ==
    \E t, u \in Tasks :
        /\ pc[t] = "inflight" /\ pc[u] = "rlsleep"
        /\ lockHolder = u /\ now < wake[u]

\* the tasks inside the critical section of acquire()
InCriticalSection == {t \in Tasks : pc[t] = "rlsleep"}

\* C15: tokens and last_update are read and written only by the task that
\* holds the lock (the holder, or a task that finds the lock free and takes
\* it), and at most one task at a time is inside the critical section
C15_BucketUnderLock ==
    /\ [](Cardinality(InCriticalSection) <= 1)
    /\ [](\A t \in InCriticalSection : lockHolder = t)
    /\ [][(tokens' # tokens \/ last_update' # last_update)
            => \/ lockHolder = NoTask /\ lockWaiters = <<>>
               \/ lockHolder # NoTask /\ pc'[lockHolder] # pc[lockHolder]]_vars

C15_Witness ==
    \E t, u \in Tasks :
        /\ t # u /\ lockHolder = u /\ pc[u] = "lockwait" /\ pc[t] = "idle"
        /\ tokens = 0 /\ last_update < now
        /\ \E i \in DOMAIN acqLog : acqLog[i].task = t /\ acqLog[i].susp /\ acqLog[i].done = now

\* the page number a followable `next` value names
PageNamedBy(next) ==
    CASE next = Url(<< <<"page", <<"1">>>> >>) -> 1
      [] next = Url(<< <<"page_size", <<"5">>>>, <<"page", <<"1", "0">>>> >>) -> 10

\* C16: the requests of a _get_all_pages run are issued one at a time, each
\* after the answer to the one before; a request after the first carries the
\* page number of the `next` URL of the answer before it, and its other
\* parameters are the caller's
C16_SequentialPages ==
    \A t \in Tasks :
        op[t] = "pages"
        => /\ Len(reqLog[t]) = Len(served[t]) + (IF pc[t] = "inflight" THEN 1 ELSE 0)
           /\ \A i \in DOMAIN reqLog[t] :
                 /\ reqLog[t][i].page_size = params[t].page_size
                 /\ i > 1 => /\ IsPage(served[t][i - 1])
                             /\ served[t][i - 1].body.next \in Followable
                             /\ reqLog[t][i].page = PageNamedBy(served[t][i - 1].body.next)

C16_Witness ==
    \E t \in Tasks :
        /\ op[t] = "pages" /\ pc[t] = "inflight" /\ Len(reqLog[t]) = 2
        /\ params[t].page = 2 /\ params[t].page_size = 50
        /\ reqLog[t][2] = [page |-> 10, page_size |-> 50]

\* C17: the first request of a _get_all_pages run carries no `page`
\* parameter, whatever the caller's parameters; a request carries a `page`
\* parameter only if it follows an answer whose `next` URL names that page
C17_NoInitialPage ==
    \A t \in Tasks :
        (op[t] = "pages" /\ reqLog[t] # <<>>)
        => /\ reqLog[t][1].page = Absent
           /\ \A i \in DOMAIN reqLog[t] :
                 reqLog[t][i].page # Absent
                 => /\ i > 1
                    /\ served[t][i - 1].body.next \in Followable
                    /\ reqLog[t][i].page = PageNamedBy(served[t][i - 1].body.next)

C17_Witness ==
    \E t \in Tasks :
        /\ op[t] = "pages" /\ params[t].page = 2
        /\ Len(reqLog[t]) = 2 /\ pc[t] = "done"
        /\ reqLog[t][1] = [page |-> Absent, page_size |-> 50]
        /\ reqLog[t][2].page = 1

\* the error that hands a transport failure to the caller
TransportError(exc) ==
    [kind |-> "raise", exc |-> "VectraAPIError", status |-> NoStatus,
     message |-> [text |-> "Request error", cause |-> exc]]

\* C18: every _make_request call ends, with a payload or an error, after at
\* most 3 attempts, whatever the transport does; a call all of whose
\* attempts fail in the transport ends with a transport error
C18_CallTerminates ==
    /\ \A t \in Tasks :
          (op[t] = "request" /\ pc[t] # "done") ~> (pc[t] = "done")
    /\ [](\A t \in Tasks :
            op[t] = "request"
            => /\ attempts[t] <= 3 /\ Len(served[t]) <= 3
               /\ pc[t] = "done"
                  => /\ outcome[t].kind \in {"return", "raise"}
                     /\ (\A i \in DOMAIN served[t] : served[t][i].kind = "exception")
                        => outcome[t] = TransportError(Last(served[t]).exc))

C18_Witness ==
    \E t, u \in Tasks :
        /\ op[t] = "request" /\ pc[t] = "done" /\ calls[t] = 2
        /\ served[t] # <<>> /\ Last(served[t]).kind = "exception"
        /\ Last(served[t]).exc = "TimeoutException"
        /\ outcome[t].kind = "raise"
        /\ op[u] = "request" /\ pc[u] = "done" /\ outcome[u].kind = "return"

\* the message of the generic error for a status, with what is appended to it
GenericMessage(status, appended) ==
    [text |-> "API request failed with status", status |-> status, detail |-> appended]

TheMessage(body) == [kind |-> "message", value |-> body.message]
TheRawText(body) == [kind |-> "rawtext", of |-> body]
Nothing == [kind |-> "nothing"]

IsObject(body) == body.kind \in {"object", "page"}
HasMessageField(body) == IsObject(body) /\ "message" \in DOMAIN body

\* a finished call that got a non-2xx answer other than 401, 403, 404, 429
GenericFailure(t, o) ==
    Answered(t, o) /\ ~Is2xx(o.status) /\ o.status \notin NamedStatuses

\* C19 as stated: the generic error carries the status code and a message
\* to which the `message` field of a JSON body is appended, and the raw
\* response text in every other case
C19_GenericErrorDetail ==
    \A t \in Tasks : \A o \in AnyResponses \cup StatusResponses :
        GenericFailure(t, o)
        => /\ outcome[t].kind = "raise" /\ outcome[t].status = o.status
           /\ outcome[t].message =
                 GenericMessage(o.status, IF HasMessageField(o.body) THEN TheMessage(o.body)
                                          ELSE TheRawText(o.body))

\* C19 amended: the `message` field of a JSON object is appended, the raw
\* response text when the body is not JSON, and nothing when the body is a
\* JSON object without a `message` field
C19_GenericErrorDetailOrNone ==
    \A t \in Tasks : \A o \in AnyResponses \cup StatusResponses :
        (GenericFailure(t, o) /\ (IsObject(o.body) \/ o.body.kind = "text"))
        => /\ outcome[t].kind = "raise" /\ outcome[t].status = o.status
           /\ outcome[t].message =
                 GenericMessage(o.status, IF HasMessageField(o.body) THEN TheMessage(o.body)
                                          ELSE IF IsObject(o.body) THEN Nothing
                                          ELSE TheRawText(o.body))

C19_Witness ==
    \E t \in Tasks : \E o \in AnyResponses :
        /\ GenericFailure(t, o) /\ o.status = 503 /\ o.body = BareObject
        /\ outcome[t].message.detail = Nothing

\* C20: a line written by a handler of setup_logging for a record whose text
\* holds a secret after `token=`, `password=`, `secret=`, `key=` or in a
\* Bearer header does not hold the secret, whether the sensitive text is in
\* the message or comes from the format arguments
C20_SecretsMasked ==
    emitted.kind = "line"
    => \A i \in DOMAIN emitted.text : emitted.text[i] \notin Secrets

\* the reference token bucket: one token is OneToken units, a tick refills
\* `capacity` units
OneToken == TicksPerSec * period
RefTokens == Min(requests_per_period * OneToken,
                 tokens + (now - last_update) * requests_per_period)

\* the task that evaluates the bucket in this step (it enters with the lock
\* free, or resumes with the lock), and the task whose sleep ends
Evaluates(t) ==
    \/ pc[t] = "lockwait" /\ pc'[t] # "lockwait"
    \/ /\ pc[t] = "idle" /\ Len(acqLog') = Len(acqLog) + 1 /\ Last(acqLog').task = t
       /\ lockHolder = NoTask /\ lockWaiters = <<>>
Wakes(t) == pc[t] = "rlsleep" /\ pc'[t] # "rlsleep"

\* C21: every step of acquire() is the step of the reference token bucket:
\* the level is refilled for the time since the last refill and capped;
\* below one token the caller suspends for exactly (1 - tokens) * period /
\* capacity and tokens becomes 0, otherwise one token is taken and the
\* caller does not suspend
C21_ReferenceStep ==
    [][\A t \in Tasks :
          /\ Evaluates(t)
             => /\ last_update' = now
                /\ IF RefTokens < OneToken
                   THEN /\ pc'[t] = "rlsleep"
                        /\ tokens' = RefTokens
                        /\ (wake'[t] - now) * requests_per_period = OneToken - RefTokens
                   ELSE /\ pc'[t] = "idle"
                        /\ tokens' = RefTokens - OneToken
          /\ Wakes(t)
             => /\ now = wake[t]
                /\ tokens' = 0
                /\ pc'[t] = "idle"]_vars

C21_Witness ==
    \E i, j \in DOMAIN acqLog :
        /\ j < i
        /\ ~acqLog[j].susp /\ acqLog[j].done = acqLog[j].issued
        /\ acqLog[i].susp /\ acqLog[i].done # Pending /\ acqLog[i].done > acqLog[i].issued
        /\ (acqLog[i].done - acqLog[i].issued) * requests_per_period < OneToken
        /\ tokens = 0

Warnings == {"warning: could not parse", "warning: maximum page limit"}
HasLogged(t, entries) == \E i \in DOMAIN logged[t] : logged[t][i] \in entries

\* a finished run whose last answer is a page with the given `next`
StoppedOn(t, nexts) ==
    /\ op[t] = "pages" /\ pc[t] = "done" /\ served[t] # <<>>
    /\ IsPage(Last(served[t])) /\ Last(served[t]).body.next \in nexts

NotAnInteger == {Url(<< <<"page", <<"x">>>> >>)}

\* C22 as stated: a run that stops on a non-null `next` without a parsable
\* page parameter (absent, empty or not an integer) has logged a warning
C22_WarnsOnMalformedNext ==
    \A t \in Tasks : StoppedOn(t, Malformed) => HasLogged(t, Warnings)

\* C22 amended: a run that stops on a `next` whose page parameter is not an
\* integer has logged the parse warning; a run that stops on a `next` whose
\* page parameter is absent or empty has not, and below the cap it has
\* logged no warning at all
C22_WarnsOnUnparsablePage ==
    \A t \in Tasks :
        /\ StoppedOn(t, NotAnInteger) => HasLogged(t, {"warning: could not parse"})
        /\ StoppedOn(t, Malformed \ NotAnInteger)
           => /\ ~HasLogged(t, {"warning: could not parse"})
              /\ Len(served[t]) < max_pages[t] => ~HasLogged(t, Warnings)

C22_Witness ==
    \E t \in Tasks :
        /\ StoppedOn(t, NotAnInteger) /\ Len(served[t]) = 1 /\ max_pages[t] = 2
        /\ logged[t] = <<"warning: could not parse">>

Waiting(t) == pc[t] \in {"lockwait", "rlsleep"}

\* C23: the requests a call has handed to the transport are never more than
\* the acquire() calls it has completed, and a task that waits in acquire()
\* has sent no request for the attempt it waits for
C23_AcquireBeforeSend ==
    \A t \in Tasks :
        op[t] \in {"request", "pages"}
        => /\ Len(reqLog[t]) <= acquired[t]
           /\ Waiting(t) => Len(reqLog[t]) = acquired[t]
           /\ pc[t] = "inflight" => Len(reqLog[t]) = acquired[t] /\ attempts[t] >= 1

C23_Witness ==
    \E t, u \in Tasks :
        /\ op[t] = "pages" /\ pc[t] = "inflight" /\ Len(reqLog[t]) = 2 /\ acquired[t] = 2
        /\ op[u] = "request" /\ pc[u] = "rlsleep" /\ calls[u] = 2 /\ reqLog[u] = <<>>

\* the items of all the pages among the answers of a run, in order
PageItems(t) ==
    Flatten([j \in DOMAIN served[t] |->
                IF IsPage(served[t][j]) THEN served[t][j].body.results ELSE <<>>])

\* C24: a finished run that has accumulated the items of a page returns the
\* envelope that holds every item of the pages it was answered with, whatever
\* the later answers are
C24_ItemsNeverDiscarded ==
    \A t \in Tasks :
        (/\ op[t] = "pages" /\ pc[t] = "done" /\ served[t] # <<>>
         /\ IsPage(served[t][1]) /\ served[t][1].body.results # <<>>)
        => outcome[t] = Return(AggregateOf(PageItems(t)))

\* C25: a call of a writing endpoint hands its request to the transport at
\* most once, whatever the transport does: when the transport has failed or
\* answered, the call is over
C25_WriteSentOnce ==
    \A t \in Tasks :
        (op[t] = "request" /\ method[t] \in Writes)
        => /\ Len(reqLog[t]) <= 1 /\ attempts[t] <= 1
           /\ served[t] # <<>> => pc[t] = "done" /\ Len(served[t]) = 1

C25_Witness ==
    \E t, u \in Tasks :
        /\ op[t] = "request" /\ method[t] = "POST" /\ pc[t] = "done"
        /\ outage[t].n = 2 /\ served[t] = <<Failure("ConnectError")>>
        /\ Len(reqLog[t]) = 1 /\ outcome[t].kind = "raise"
        /\ op[u] = "request" /\ method[u] = "DELETE" /\ pc[u] = "done"
        /\ served[u] # <<>> /\ served[u][1].kind = "response" /\ served[u][1].status = 429

\* C26: a run logs the warning of the page limit only if the last page it
\* fetched has a `next` that is not null
C26_CapWarningOnlyWhenCut ==
    \A t \in Tasks :
        (op[t] = "pages" /\ HasLogged(t, {"warning: maximum page limit"}))
        => /\ served[t] # <<>> /\ IsPage(Last(served[t]))
           /\ Last(served[t]).body.next # None

\* C27: the envelope a run returns has next = null, previous = null and a
\* count that is the number of its items, whatever the pages reported
C27_AggregateShape ==
    \A t \in Tasks :
        (/\ op[t] = "pages" /\ pc[t] = "done"
         /\ outcome[t].kind = "return" /\ outcome[t].value.kind = "aggregate")
        => /\ outcome[t].value.next = None
           /\ outcome[t].value.previous = None
           /\ outcome[t].value.count = Len(outcome[t].value.results)

C27_Witness ==
    \E t \in Tasks :
        /\ StoppedOn(t, Malformed) /\ Len(served[t]) = 2
        /\ served[t][1].body.count = 1 + NItems /\ Last(served[t]).body.count = 1 + NItems
        /\ outcome[t].value.kind = "aggregate" /\ outcome[t].value.count = 2
        /\ outcome[t].value.next = None

\* C28: with several runs in flight, the accumulator of a run holds the items
\* of the pages that run was answered with, in the order of its pages, and
\* nothing else; every request of a run after the first carries the page
\* named by the last answer to that run; a finished run returns its own items
C28_RunsShareNothing ==
    \A t \in Tasks :
        op[t] = "pages"
        => /\ all_results[t] = PageItems(t)
           /\ \A k \in DOMAIN all_results[t] : all_results[t][k] = t
           /\ pages_fetched[t] = Len(served[t])
           /\ \A i \in DOMAIN reqLog[t] :
                 i > 1 => reqLog[t][i].page = PageNamedBy(served[t][i - 1].body.next)
           /\ pc[t] = "done" => outcome[t] = Return(AggregateOf(PageItems(t)))

C28_Witness ==
    /\ \A t \in Clients :
          /\ op[t] = "pages" /\ pc[t] = "done" /\ Len(served[t]) = 2
          /\ outcome[t].value.results = <<t, t>>
    /\ reqLog[1][2].page = 1 /\ reqLog[2][2].page = 10

\* C29: the mapping the caller passed to _get_all_pages is one of the
\* mappings callers pass, its `page` key included, and no step of the run
\* changes it; the request parameters of the run are kept apart from it
C29_CallerParamsUntouched ==
    /\ [](\A t \in Tasks : op[t] = "pages" => params[t] \in ParamChoices)
    /\ [][\A t \in Tasks :
            (op[t] = "pages" /\ op'[t] = "pages") => params'[t] = params[t]]_vars

C29_Witness ==
    \E t \in Tasks :
        /\ op[t] = "pages" /\ pc[t] = "done" /\ Len(reqLog[t]) = 2
        /\ params[t] = [page |-> 2, page_size |-> 50]
        /\ reqLog[t][1].page = Absent
        /\ current_params[t].page = 10

====
